---------------------------- MODULE Spec2Model ----------------------------
(***************************************************************************)
(* Flutomat NG: the FluteCalculator of src/flutomat.js and of its later    *)
(* revision src/unnamed/part_000, with the form of src/index.html.         *)
(*                                                                         *)
(* Numbers.  The program computes in IEEE doubles.  Here a number is a     *)
(* fixed-point integer counting 1/S units (S = 10000, four decimals) of    *)
(* magnitude at most Max, or the value NaN.  Every arithmetic operator     *)
(* propagates NaN the way the doubles do and rounds to the nearest 1/S.    *)
(* A result beyond Max is the value Over, which every operator passes on;  *)
(* a handler whose computation met Over is left out of the behaviours,     *)
(* so every state the model reaches was computed inside the range.  A text *)
(* field holds a number (its decimal text) or Blank (the empty string); an *)
(* output holds a number, Blank or ErrorText.                              *)
(*                                                                         *)
(* Page.  src/index.html is the page of src/flutomat.js.  The revision     *)
(* src/unnamed/part_000 runs on the same form, with the canvas             *)
(* "renderedFlute" that its renderFluteImage and clearFluteImage draw on;  *)
(* the drawing reads the outputs and changes nothing the model holds.      *)
(***************************************************************************)
EXTENDS Integers, Sequences, FiniteSets, TLC

\* ------------------------------------------------------------------------
\* Numbers
\* ------------------------------------------------------------------------

\* Fixed-point scale: a number n stands for n / S.
S == 10000

\* The double NaN (parseFloat of a non-number, Math.sqrt of a negative).
NaN == -2100000001

\* The empty string, as the value of an input or of an output element.
Blank == -2100000002

\* The text "Error" written by displayResultsInForm's format().
ErrorText == -2100000003

\* A double of magnitude beyond Max / S.
Over == -2100000004

\* Greatest magnitude of a number: 200000.0000.
Max == 2000000000

isNaN(x) == x = NaN

Abs(x) == IF x < 0 THEN -x ELSE x

Sign(x) == IF x < 0 THEN -1 ELSE 1

\* round(n / d) for n >= 0, d > 0 (half away from zero).
RoundDiv(n, d) == (n \div d) + (IF 2 * (n % d) >= d THEN 1 ELSE 0)

\* a + b for a, b in 0 .. Max or Over.
AddAbs(a, b) == IF a = Over \/ b = Over \/ a > Max - b THEN Over ELSE a + b

\* The magnitude m with the sign s.
Signed(s, m) == IF m = Over THEN Over ELSE s * m

\* x * y on non-negative numbers, split so that no partial product leaves
\* the integer range.
MulAbs(x, y) ==
    LET xh == x \div S
        xl == x % S
        yh == y \div S
        yl == y % S
    IN  IF xh > 0 /\ yh > (Max \div S) \div xh THEN Over
        ELSE AddAbs(AddAbs(xh * yh * S, xh * yl),
                    AddAbs(xl * yh, RoundDiv(xl * yl, S)))

\* The double product x * y.
Mul(x, y) ==
    IF isNaN(x) \/ isNaN(y) THEN NaN
    ELSE IF x = Over \/ y = Over THEN Over
    ELSE Signed(Sign(x) * Sign(y), MulAbs(Abs(x), Abs(y)))

RECURSIVE LongDiv(_, _, _, _)
\* Long division: q so far, remainder r, divisor y, k decimal digits to go.
LongDiv(q, r, y, k) ==
    IF k = 0 THEN AddAbs(q, IF 2 * r >= y THEN 1 ELSE 0)
    ELSE IF q > (Max \div 10) - 1 THEN Over
    ELSE LongDiv(10 * q + ((10 * r) \div y), (10 * r) % y, y, k - 1)

\* The double quotient x / y: NaN for 0 / 0, an infinity (Over) for any
\* other x / 0.
Div(x, y) ==
    IF isNaN(x) \/ isNaN(y) \/ (x = 0 /\ y = 0) THEN NaN
    ELSE IF x = Over \/ y = Over \/ y = 0 \/ Abs(y) > Max \div 10 THEN Over
    ELSE Signed(Sign(x) * Sign(y),
                LongDiv(Abs(x) \div Abs(y), Abs(x) % Abs(y), Abs(y), 4))

\* The double sum and difference.
Add(x, y) ==
    IF isNaN(x) \/ isNaN(y) THEN NaN
    ELSE IF x = Over \/ y = Over THEN Over
    ELSE IF (x > 0 /\ y > Max - x) \/ (x < 0 /\ y < (-Max) - x) THEN Over
    ELSE x + y

Neg(x) == IF isNaN(x) THEN NaN ELSE IF x = Over THEN Over ELSE -x

Sub(x, y) == Add(x, Neg(y))

\* x < y on doubles: false when either side is NaN.
Lt(x, y) == ~isNaN(x) /\ ~isNaN(y) /\ x # Over /\ y # Over /\ x < y

\* floor(sqrt(n)) for n >= 0, found digit by digit in base 36; 46340 is the
\* largest r whose square is a 32-bit integer, and less than 36 * 36 * 36.
ISqrt(n) ==
    LET Fits(r) == r <= 46340 /\ r * r <= n
        Digit(base, step) ==
            CHOOSE d \in 0 .. 35 :
                Fits(base + d * step) /\ ~Fits(base + (d + 1) * step)
        high == Digit(0, 1296) * 1296
        middle == high + Digit(high, 36) * 36
    IN  middle + Digit(middle, 1)

\* Math.sqrt: NaN for NaN and for a negative argument, else the root to the
\* precision the integer range allows.
MathSqrt(x) ==
    IF x = Over THEN Over
    ELSE IF isNaN(x) \/ x < 0 THEN NaN
    ELSE IF x <= 214748 THEN ISqrt(x * S)
    ELSE IF x <= 21474836 THEN 10 * ISqrt(x * 100)
    ELSE 100 * ISqrt(x)

\* toFixed(digits) for digits in 1..3: the decimal text of v rounded to that
\* many decimals, held as the number the text denotes.
toFixed(v, digits) ==
    IF isNaN(v) THEN NaN
    ELSE IF v = Over THEN Over
    ELSE Signed(Sign(v),
                AddAbs(0, RoundDiv(Abs(v), IF digits = 3 THEN 10
                                           ELSE IF digits = 2 THEN 100 ELSE 1000)
                          * (IF digits = 3 THEN 10
                             ELSE IF digits = 2 THEN 100 ELSE 1000)))

\* parseFloat of a field's text: NaN for the empty string.
parseFloat(text) == IF text = Blank THEN NaN ELSE text

\* Number(text): 0 for the empty string.
Number(text) == IF text = Blank THEN 0 ELSE text

\* What an input of type number keeps of an assigned value: the text of a
\* number, and the empty string for anything else ("NaN").
FieldText(v) == IF isNaN(v) THEN Blank ELSE v

\* The function f with its values computed: an array.
Array(f) == f @@ << >>

\* ------------------------------------------------------------------------
\* Configuration constants of the constructor
\* ------------------------------------------------------------------------

HOLE_COUNT == 6

Holes == 0 .. (HOLE_COUNT - 1)

\* 0.3937008, to four decimals.
CM_TO_INCH == 3937

\* 0.6133
END_CORRECTION_FACTOR == 6133

\* 0.75
HOLE_HEIGHT_EXTENSION_FACTOR == 7500

MIDI_A4_NOTE == 69

\* 440.0
A4_FREQUENCY_HZ == 4400000

MAJOR_SCALE_INTERVALS == <<0, 2, 4, 5, 7, 9, 11>>

\* The files modelled: the calculator of src/flutomat.js and its revision
\* src/unnamed/part_000.
Sources == {"flutomat.js", "part_000"}

\* ------------------------------------------------------------------------
\* Acoustic calculation functions (t is the calculator object, this)
\* ------------------------------------------------------------------------

calculateEffectiveHoleHeight(t, holeIndex) ==
    LET diameter == t.holes[holeIndex].diameter
    IN  IF isNaN(t.wallThickness) \/ isNaN(diameter) THEN NaN
        ELSE Add(t.wallThickness, Mul(HOLE_HEIGHT_EXTENSION_FACTOR, diameter))

calculateClosedHoleCorrection(t, holeIndex) ==
    LET diameter == t.holes[holeIndex].diameter
    IN  IF isNaN(t.wallThickness) \/ isNaN(diameter) \/ isNaN(t.boreDiameter)
           \/ t.boreDiameter = 0
        THEN NaN
        ELSE LET ratio == Div(diameter, t.boreDiameter)
             IN  Mul(Mul(Mul(2500, t.wallThickness), ratio), ratio)

calculateEndCorrection(t) ==
    IF isNaN(t.boreDiameter) THEN NaN
    ELSE Mul(END_CORRECTION_FACTOR, Div(t.boreDiameter, 2 * S))

calculateEmbouchureCorrection(t) ==
    IF isNaN(t.boreDiameter) \/ isNaN(t.embouchureDiameter) \/ isNaN(t.wallThickness)
       \/ t.embouchureDiameter = 0
       \/ Add(t.boreDiameter, Mul(2 * S, t.wallThickness)) = 0
    THEN NaN
    ELSE LET bore_demb_ratio_sq ==
                 Mul(Div(t.boreDiameter, t.embouchureDiameter),
                     Div(t.boreDiameter, t.embouchureDiameter))
             numerator == Mul(Mul(108400, t.wallThickness), t.embouchureDiameter)
             denominator == Add(t.boreDiameter, Mul(2 * S, t.wallThickness))
         IN  Div(Mul(bore_demb_ratio_sq, numerator), denominator)


\* ------------------------------------------------------------------------
\* calculateHolePositions_Quadratic
\*
\* A world w holds the calculator object (w.this), the form's input fields
\* (w.form), the border colour of each input (w.border) and the result
\* outputs (w.out), with three observations of the last solve: w.ret, its
\* return value ("none" when the solver did not run), w.failedHole, the hole
\* whose quadratic had no real solution (-1 when none), and
\* w.sqrtOfNegative, whether Math.sqrt was handed a negative number.
\* ------------------------------------------------------------------------

\* ReturnFalse with the fault of resetting acousticEndX on the way out.
ReturnFalse_Resetting(w) == [w EXCEPT !.ret = "false", !.this.acousticEndX = NaN]

\* return false
ReturnFalse(w) == [w EXCEPT !.ret = "false"]

\* The red border part_000 sets on a hole diameter input when a quadratic
\* has no real solution, and the clearing of that border when it has one;
\* src/flutomat.js only logs.
TagHoleDiameter(w, src, index, color) ==
    IF src = "part_000" THEN [w EXCEPT !.border.holeDiameter[index] = color]
    ELSE w

RECURSIVE SubtractCorrections(_, _, _)
\* for (let i = from; i < HOLE_COUNT; i++) x -= closedHoleCorrections[i]
SubtractCorrections(x, closedHoleCorrections, from) ==
    IF from >= HOLE_COUNT THEN x
    ELSE SubtractCorrections(Sub(x, closedHoleCorrections[from]),
                             closedHoleCorrections, from + 1)

\* TargetAcousticLength with the fault of subtracting the hole's own
\* correction as well (the loop started one index early).
TargetAcousticLength_OwnCorrection(t, closedHoleCorrections, freq, from) ==
    SubtractCorrections(Div(Mul(t.speedOfSound, 5000), freq),
                        closedHoleCorrections, from - 1)

\* speedOfSound * 0.5 / freq, less the corrections of the closed holes
\* from..HOLE_COUNT-1: L1 of step 2 and Ln of step 3.
TargetAcousticLength(t, closedHoleCorrections, freq, from) ==
    SubtractCorrections(Div(Mul(t.speedOfSound, 5000), freq),
                        closedHoleCorrections, from)

\* AcousticEnd with the fault of accumulating onto the acousticEndX of
\* the previous solve (this.acousticEndX -= ... without the assignment
\* that starts it afresh).
AcousticEnd_Accumulating(t, closedHoleCorrections, endCorrection) ==
    SubtractCorrections(
        Sub(Add(t.acousticEndX, Div(Mul(t.speedOfSound, 5000), t.endFrequency)),
            endCorrection),
        closedHoleCorrections, 0)

\* Step 1: the acoustic position of the open end.
AcousticEnd(t, closedHoleCorrections, endCorrection) ==
    SubtractCorrections(
        Sub(Div(Mul(t.speedOfSound, 5000), t.endFrequency), endCorrection),
        closedHoleCorrections, 0)

\* (b * b) - 4 * a * c
Discriminant(a, b, c) == Sub(Mul(b, b), Mul(Mul(4 * S, a), c))

\* NoRealSolution with the fault of leaving the discriminant check out.
NoRealSolution_Unchecked(discriminant) == FALSE

\* if (discriminant < 0)
NoRealSolution(discriminant) == Lt(discriminant, 0)

\* MinusRoot with the fault of taking the plus root.
MinusRoot_PlusRoot(a, b, discriminant) ==
    Div(Add(Neg(b), MathSqrt(discriminant)), Mul(2 * S, a))

\* (-b - Math.sqrt(discriminant)) / (2 * a)
MinusRoot(a, b, discriminant) ==
    Div(Sub(Neg(b), MathSqrt(discriminant)), Mul(2 * S, a))

\* StoreAcousticPosition with the fault of projecting each hole as soon as
\* it is solved, instead of all holes in step 5.
StoreAcousticPosition_Projecting(w, n, acousticPosition) ==
    IF isNaN(acousticPosition)
    THEN ReturnFalse([w EXCEPT !.this.holes[n].acousticPosition = acousticPosition])
    ELSE [w EXCEPT !.this.holes[n].acousticPosition = acousticPosition,
                   !.this.holes[n].physicalPosition =
                       Sub(w.this.acousticEndX, acousticPosition)]

\* this.holes[n].acousticPosition = ...; if (isNaN(...)) return false
StoreAcousticPosition(w, n, acousticPosition) ==
    IF isNaN(acousticPosition)
    THEN ReturnFalse([w EXCEPT !.this.holes[n].acousticPosition = acousticPosition])
    ELSE [w EXCEPT !.this.holes[n].acousticPosition = acousticPosition]

\* The end of hole n's quadratic: the discriminant check (with a === 0 for
\* hole 0), the border of the hole diameter input `index`, the minus root.
\* w.failedHole records n when the discriminant is negative (or a is 0 at
\* hole 0), w.sqrtOfNegative whether Math.sqrt then gets a negative number.
SolveQuadratic(w, src, n, index, a, b, discriminant) ==
    LET w1 == [w EXCEPT !.failedHole =
                   IF Lt(discriminant, 0) \/ (n = 0 /\ a = 0) THEN n ELSE @]
    IN  IF NoRealSolution(discriminant) \/ (n = 0 /\ a = 0)
        THEN TagHoleDiameter(ReturnFalse(w1), src, index, "red")
        ELSE StoreAcousticPosition(
                 [TagHoleDiameter(w1, src, index, "")
                      EXCEPT !.sqrtOfNegative = Lt(discriminant, 0)],
                 n, MinusRoot(a, b, discriminant))

\* Step 2 from the check of L1 on; a1_term is (diameter1 / boreDiameter)^2.
FirstQuadratic(w, src, te_1, L1, a1_term) ==
    IF isNaN(L1) THEN ReturnFalse(w)
    ELSE LET acousticEndX == w.this.acousticEndX
             a1 == a1_term
             b1 == Mul(Neg(Add(acousticEndX, L1)), a1_term)
             c1 == Add(Mul(Mul(acousticEndX, L1), a1_term),
                       Mul(te_1, Sub(L1, acousticEndX)))
         IN  SolveQuadratic(w, src, 0, 0, a1, b1, Discriminant(a1, b1, c1))

\* Step 2: the standalone quadratic of hole 0.
SolveFirstHole(w, src, closedHoleCorrections) ==
    LET t == w.this
        holeIndex1 == 0
        te_1 == calculateEffectiveHoleHeight(t, holeIndex1)
        diameter1 == t.holes[holeIndex1].diameter
        freq1 == t.holes[holeIndex1].frequency
    IN  IF isNaN(te_1) \/ isNaN(diameter1) \/ isNaN(freq1) \/ freq1 <= 0
        THEN ReturnFalse(w)
        ELSE FirstQuadratic(
                 w, src, te_1,
                 TargetAcousticLength(t, closedHoleCorrections, freq1, holeIndex1 + 1),
                 Mul(Div(diameter1, t.boreDiameter), Div(diameter1, t.boreDiameter)))

\* The loop body of step 3 from the check of Ln on; term is
\* te_n * bore_d_ratio_sq.
ChainQuadratic(w, src, n, prevHolePos, Ln, term) ==
    IF isNaN(Ln) THEN ReturnFalse(w)
    ELSE IF w.this.holes[n].diameter = 0 THEN ReturnFalse(w)
    ELSE LET a_n == 2 * S
             b_n == Add(Sub(Neg(prevHolePos), Mul(3 * S, Ln)), term)
             c_n == Add(Mul(prevHolePos, Sub(Ln, term)), Mul(Ln, Ln))
         IN  SolveQuadratic(w, src, n, n - 1, a_n, b_n, Discriminant(a_n, b_n, c_n))

\* The loop body of step 3 for hole n >= 1; w.ret stays "none" when the loop
\* goes on.
SolveHole(w, src, closedHoleCorrections, n) ==
    LET t == w.this
        te_n == calculateEffectiveHoleHeight(t, n)
        diameter_n == t.holes[n].diameter
        freq_n == t.holes[n].frequency
        prevHolePos == t.holes[n - 1].acousticPosition
    IN  IF isNaN(te_n) \/ isNaN(diameter_n) \/ isNaN(freq_n) \/ freq_n <= 0
           \/ isNaN(prevHolePos)
        THEN ReturnFalse(w)
        ELSE ChainQuadratic(
                 w, src, n, prevHolePos,
                 TargetAcousticLength(t, closedHoleCorrections, freq_n, n + 1),
                 Mul(te_n, Mul(Div(t.boreDiameter, diameter_n),
                               Div(t.boreDiameter, diameter_n))))

RECURSIVE ProjectHoles(_, _)
\* Step 5's loop: the physical position of hole i and of those after it,
\* then return true.
ProjectHoles(w, i) ==
    IF w.ret = "false" THEN w
    ELSE IF i >= HOLE_COUNT THEN [w EXCEPT !.ret = "true"]
    ELSE ProjectHoles(
             [w EXCEPT !.this.holes[i].physicalPosition =
                           Sub(w.this.acousticEndX, w.this.holes[i].acousticPosition),
                       !.ret = IF isNaN(Sub(w.this.acousticEndX,
                                            w.this.holes[i].acousticPosition))
                               THEN "false" ELSE @],
             i + 1)

\* ProjectAll with the fault of measuring the embouchure from the acoustic
\* origin instead of from the open end.
ProjectAll_FromOrigin(w) ==
    IF isNaN(w.this.embouchureAcousticX) THEN ReturnFalse(w)
    ELSE IF isNaN(w.this.acousticEndX) THEN ReturnFalse(w)
    ELSE ProjectHoles(
             [w EXCEPT !.this.embouchurePhysicalPosition = w.this.embouchureAcousticX],
             0)

\* Step 4 from the check of the embouchure correction on, and step 5.
ProjectAll(w) ==
    IF isNaN(w.this.embouchureAcousticX) THEN ReturnFalse(w)
    ELSE IF isNaN(w.this.acousticEndX) THEN ReturnFalse(w)
    ELSE ProjectHoles(
             [w EXCEPT !.this.embouchurePhysicalPosition =
                           Sub(w.this.acousticEndX, w.this.embouchureAcousticX)],
             0)

\* SolveEmbouchure with the fault of measuring the embouchure correction from
\* the last hole of the chain.
SolveEmbouchure_FromLastHole(w) ==
    ProjectAll([w EXCEPT !.this.embouchureAcousticX =
                             Add(calculateEmbouchureCorrection(w.this),
                                 w.this.holes[HOLE_COUNT - 1].acousticPosition)])

\* Steps 4 and 5: the embouchure correction and the physical positions.
SolveEmbouchure(w) ==
    ProjectAll([w EXCEPT !.this.embouchureAcousticX =
                             calculateEmbouchureCorrection(w.this)])

RECURSIVE SolveNextHoles(_, _, _, _)
\* Step 3: for (let n = 1; n < HOLE_COUNT; n++), left at the first return
\* false, then steps 4 and 5.
SolveNextHoles(w, src, closedHoleCorrections, n) ==
    IF w.ret = "false" THEN w
    ELSE IF n >= HOLE_COUNT THEN SolveEmbouchure(w)
    ELSE SolveNextHoles(SolveHole(w, src, closedHoleCorrections, n),
                        src, closedHoleCorrections, n + 1)

\* Step 1 from the check of acousticEndX on, then steps 2 to 5.
SolveHoles(w, src, closedHoleCorrections) ==
    IF isNaN(w.this.acousticEndX) THEN ReturnFalse(w)
    ELSE SolveNextHoles(SolveFirstHole(w, src, closedHoleCorrections),
                        src, closedHoleCorrections, 1)

\* Steps 0 and 1: the corrections and the acoustic end position, then the
\* holes.  Returns the world after the call, w.ret its return value.
calculateHolePositions_Quadratic(w0, src) ==
    LET w == [w0 EXCEPT !.ret = "none", !.failedHole = -1, !.sqrtOfNegative = FALSE]
        t == w.this
    IN  IF isNaN(t.speedOfSound) \/ t.speedOfSound <= 0 THEN ReturnFalse(w)
        ELSE
        LET closedHoleCorrections ==
                Array([i \in Holes |-> calculateClosedHoleCorrection(t, i)])
            endCorrection == calculateEndCorrection(t)
        IN  IF \E i \in Holes : isNaN(closedHoleCorrections[i]) THEN ReturnFalse(w)
            ELSE IF isNaN(endCorrection) THEN ReturnFalse(w)
            ELSE IF isNaN(t.endFrequency) \/ t.endFrequency <= 0 THEN ReturnFalse(w)
            ELSE SolveHoles(
                     [w EXCEPT !.this.acousticEndX =
                                   AcousticEnd(t, closedHoleCorrections, endCorrection)],
                     src, closedHoleCorrections)

\* ------------------------------------------------------------------------
\* The form of index.html and the calculator's reading of it
\* ------------------------------------------------------------------------

\* The value attributes of index.html: what the page shows when loaded and
\* what the browser's form reset restores.
DefaultForm ==
    [units |-> "inches",
     temperature |-> 200000,
     tempUnit |-> "C",
     boreDiameter |-> 8240,
     wallThickness |-> 1130,
     embouchureDiameter |-> 5000,
     endFrequency |-> 2936600,
     keySelector |-> 62,
     holeFrequency |-> [i \in Holes |->
         <<3296300, 3699900, 3920000, 4400000, 4938800, 5543700>>[i + 1]],
     holeDiameter |-> [i \in Holes |->
         <<2500, 4375, 3125, 3125, 3750, 3750>>[i + 1]]]

\* The output elements as index.html declares them: empty, the end "0.000".
DefaultOut ==
    [resultEmbouchure |-> Blank,
     resultEnd |-> 0,
     resultHole |-> [i \in Holes |-> Blank],
     speedOfSoundDisplay |-> [text |-> "", value |-> Blank, units |-> ""]]

NoBorder ==
    [temperature |-> "", boreDiameter |-> "", wallThickness |-> "",
     embouchureDiameter |-> "", endFrequency |-> "",
     holeFrequency |-> [i \in Holes |-> ""],
     holeDiameter |-> [i \in Holes |-> ""]]

\* The fields of the constructor's "Internal State Variables".
NewCalculator ==
    [units |-> "inches",
     temperatureCelsius |-> 20 * S,
     speedOfSound |-> 0,
     boreDiameter |-> 0,
     wallThickness |-> 0,
     embouchureDiameter |-> 0,
     endFrequency |-> 0,
     holes |-> << >>,
     acousticEndX |-> 0,
     embouchureAcousticX |-> 0,
     embouchurePhysicalPosition |-> 0]

\* this.speedOfSoundDisplay.textContent = `Speed of Sound: ... units/s`
updateSpeedOfSoundDisplay(w) ==
    IF ~isNaN(w.this.speedOfSound)
    THEN [w EXCEPT !.out.speedOfSoundDisplay =
                       [text |-> "value",
                        value |-> toFixed(w.this.speedOfSound, 1),
                        units |-> w.this.units]]
    ELSE [w EXCEPT !.out.speedOfSoundDisplay =
                       [text |-> "Calculation Error", value |-> Blank, units |-> ""]]

\* The tail of calculateSpeedOfSound: the isNaN check and the display.
StoreSpeedOfSound(w, speedOfSound) ==
    IF isNaN(speedOfSound)
    THEN [w EXCEPT !.this.speedOfSound = NaN,
                   !.out.speedOfSoundDisplay =
                       [text |-> "Error", value |-> Blank, units |-> ""]]
    ELSE updateSpeedOfSoundDisplay([w EXCEPT !.this.speedOfSound = speedOfSound])

\* 331.3 * Math.sqrt(1 + temperatureCelsius / 273.15), times 100 (cm/s) or
\* 39.3701 (inches/s).
calculateSpeedOfSound(w) ==
    StoreSpeedOfSound(
        w, Mul(Mul(3313000, MathSqrt(Add(S, Div(w.this.temperatureCelsius, 2731500)))),
               IF w.this.units = "cm" THEN 100 * S ELSE 393701))

readUnitsInput(w) == [w EXCEPT !.this.units = w.form.units]

\* (tempValue - 32) * 5 / 9 for 'F', tempValue otherwise.
ToCelsius(tempValue, tempUnit) ==
    IF tempUnit = "F" THEN Div(Mul(Sub(tempValue, 32 * S), 5 * S), 9 * S)
    ELSE tempValue

readTemperatureInput(w, src) ==
    LET tempValue == parseFloat(w.form.temperature)
        tempUnit == w.form.tempUnit
    IN  IF src = "flutomat.js" /\ isNaN(tempValue)
        THEN \* the default, the red border, and return
             [w EXCEPT !.this.temperatureCelsius = 20 * S,
                       !.border.temperature = "red"]
        ELSE \* in part_000 the default set for NaN is overwritten below it
             calculateSpeedOfSound(
                 [w EXCEPT !.border.temperature =
                               IF isNaN(tempValue) THEN @ ELSE "",
                           !.this.temperatureCelsius = ToCelsius(tempValue, tempUnit)])

\* isNaN(value) || value <= 0, of a field's text.
Invalid(text) == isNaN(parseFloat(text)) \/ parseFloat(text) <= 0

\* parseAndValidate(inputElement, propertyName): what this[propertyName]
\* becomes; the input's border turns red and the form invalid when it is NaN.
parseAndValidate(text) == IF Invalid(text) THEN NaN ELSE parseFloat(text)

\* readHole with the fault of starting the positions at 0 instead of NaN.
readHole_Zeroed(f, i) ==
    [frequency |-> IF Invalid(f.holeFrequency[i]) \/ Invalid(f.holeDiameter[i])
                   THEN NaN ELSE parseFloat(f.holeFrequency[i]),
     diameter |-> IF Invalid(f.holeFrequency[i]) \/ Invalid(f.holeDiameter[i])
                  THEN NaN ELSE parseFloat(f.holeDiameter[i]),
     acousticPosition |-> 0,
     physicalPosition |-> 0]

\* One pass of the "Read hole data" loop: this.holes[i].
readHole(f, i) ==
    [frequency |-> IF Invalid(f.holeFrequency[i]) \/ Invalid(f.holeDiameter[i])
                   THEN NaN ELSE parseFloat(f.holeFrequency[i]),
     diameter |-> IF Invalid(f.holeFrequency[i]) \/ Invalid(f.holeDiameter[i])
                  THEN NaN ELSE parseFloat(f.holeDiameter[i]),
     acousticPosition |-> NaN,
     physicalPosition |-> NaN]

\* readInputsFromForm after readUnitsInput and readTemperatureInput: the
\* four parseAndValidate calls and the "Read hole data" loop, whose passes
\* are independent of one another.
readDimensions(w) ==
    [w EXCEPT
        !.this.boreDiameter = parseAndValidate(w.form.boreDiameter),
        !.this.wallThickness = parseAndValidate(w.form.wallThickness),
        !.this.embouchureDiameter = parseAndValidate(w.form.embouchureDiameter),
        !.this.endFrequency = parseAndValidate(w.form.endFrequency),
        !.this.holes = Array([i \in Holes |-> readHole(w.form, i)]),
        !.border.boreDiameter = IF Invalid(w.form.boreDiameter) THEN "red" ELSE "",
        !.border.wallThickness = IF Invalid(w.form.wallThickness) THEN "red" ELSE "",
        !.border.embouchureDiameter =
            IF Invalid(w.form.embouchureDiameter) THEN "red" ELSE "",
        !.border.endFrequency = IF Invalid(w.form.endFrequency) THEN "red" ELSE "",
        !.border.holeFrequency = Array([i \in Holes |->
            IF Invalid(w.form.holeFrequency[i]) THEN "red" ELSE ""]),
        !.border.holeDiameter = Array([i \in Holes |->
            IF Invalid(w.form.holeDiameter[i]) THEN "red" ELSE ""]),
        !.valid =
            /\ ~Invalid(w.form.boreDiameter)
            /\ ~Invalid(w.form.wallThickness)
            /\ ~Invalid(w.form.embouchureDiameter)
            /\ ~Invalid(w.form.endFrequency)
            /\ \A i \in Holes : /\ ~Invalid(w.form.holeFrequency[i])
                                 /\ ~Invalid(w.form.holeDiameter[i])]

\* The world after readInputsFromForm; w.valid is its return value in
\* src/flutomat.js, and FALSE stands for the Error thrown in part_000.
readInputsFromForm(w, src) ==
    readDimensions(readTemperatureInput(readUnitsInput(w), src))

\* ------------------------------------------------------------------------
\* Frequencies from the key, unit conversion of the fields, result outputs
\* ------------------------------------------------------------------------

\* Math.pow(2, k / 12.0) for k in 0..11, in millionths.
Pow2Twelfths ==
    <<1000000, 1059463, 1122462, 1189207, 1259921, 1334840,
      1414214, 1498307, 1587401, 1681793, 1781797, 1887749>>

\* 2^n for n >= 0.
RECURSIVE Pow2(_)
Pow2(n) == IF n = 0 THEN 1 ELSE 2 * Pow2(n - 1)

\* A4_FREQUENCY_HZ * Math.pow(2, (midiNote - MIDI_A4_NOTE) / 12.0), for the
\* notes at or below A5.
midiNoteToFrequency(midiNote) ==
    LET semitones == midiNote - MIDI_A4_NOTE
        k == semitones % 12
        octave == (semitones - k) \div 12
        hz == A4_FREQUENCY_HZ \div S
    IN  IF octave >= 0 THEN RoundDiv(hz * Pow2Twelfths[k + 1] * Pow2(octave), 100)
        ELSE RoundDiv(hz * Pow2Twelfths[k + 1], 100 * Pow2(-octave))

\* parseInt(text, 10) of the key selector's value: the MIDI note number of
\* the selected option, NaN for the empty string of a selector with no
\* option selected.
parseInt(text) == IF text = Blank THEN NaN ELSE text

\* updateFrequenciesFromKey with the fault of giving hole i the interval of
\* index i instead of i + 1.
updateFrequenciesFromKey_OffByOne(w) ==
    IF isNaN(parseInt(w.form.keySelector)) THEN w
    ELSE
    [w EXCEPT
        !.form.endFrequency =
            toFixed(midiNoteToFrequency(
                        parseInt(w.form.keySelector) + MAJOR_SCALE_INTERVALS[1]), 2),
        !.form.holeFrequency = Array([i \in Holes |->
            toFixed(midiNoteToFrequency(
                        parseInt(w.form.keySelector) + MAJOR_SCALE_INTERVALS[i + 1]), 2)])]

\* The end frequency and the hole frequencies from the selected key; the
\* sequence MAJOR_SCALE_INTERVALS counts from 1 where the array counts from 0.
updateFrequenciesFromKey(w) ==
    IF isNaN(parseInt(w.form.keySelector)) THEN w
    ELSE
    [w EXCEPT
        !.form.endFrequency =
            toFixed(midiNoteToFrequency(
                        parseInt(w.form.keySelector) + MAJOR_SCALE_INTERVALS[1]), 2),
        !.form.holeFrequency = Array([i \in Holes |->
            toFixed(midiNoteToFrequency(
                        parseInt(w.form.keySelector) + MAJOR_SCALE_INTERVALS[i + 2]), 2)])]

\* (Number(field.value) * ratio).toFixed(digits)
ConvertField(text, ratio, digits) == toFixed(Mul(Number(text), ratio), digits)

updateUnitsBasedInputs(w) ==
    LET isCm == w.this.units = "cm"
        ratio == IF isCm THEN Div(S, CM_TO_INCH) ELSE CM_TO_INCH
        digits == IF isCm THEN 2 ELSE 3
    IN  [w EXCEPT
            !.form.wallThickness = ConvertField(@, ratio, digits),
            !.form.boreDiameter = ConvertField(@, ratio, digits),
            !.form.embouchureDiameter = ConvertField(@, ratio, digits),
            !.form.holeDiameter = Array([i \in Holes |-> ConvertField(@[i], ratio, digits)])]

\* const format = (value) => isNaN(value) ? "Error" : value.toFixed(3)
format(value) == IF isNaN(value) THEN ErrorText ELSE toFixed(value, 3)

\* Displays the calculated physical positions in the output fields.
displayResultsInForm(w) ==
    [w EXCEPT !.out.resultEmbouchure = format(w.this.embouchurePhysicalPosition),
              !.out.resultEnd = toFixed(0, 3),
              !.out.resultHole =
                  Array([i \in Holes |-> format(w.this.holes[i].physicalPosition)])]

\* clearResults with the fault of emptying the end output with the others.
clearResults_EndToo(w) ==
    [w EXCEPT !.out.resultEmbouchure = Blank,
              !.out.resultEnd = Blank,
              !.out.resultHole = Array([i \in Holes |-> Blank])]

\* Clears all result output fields.
clearResults(w) ==
    [w EXCEPT !.out.resultEmbouchure = Blank,
              !.out.resultEnd = toFixed(0, 3),
              !.out.resultHole = Array([i \in Holes |-> Blank])]

\* calculateAllPositions of src/flutomat.js, after the solver's call.
ShowOrClear(w) ==
    IF w.ret = "true" THEN displayResultsInForm(w) ELSE clearResults(w)

\* calculateAllPositions of src/flutomat.js, after readInputsFromForm.
SolveIfValid(w) ==
    IF w.valid THEN ShowOrClear(calculateHolePositions_Quadratic(w, "flutomat.js"))
    ELSE clearResults(w)

\* calculateAllPositions of src/flutomat.js.
calculateAllPositions_js(w) == SolveIfValid(readInputsFromForm(w, "flutomat.js"))

\* calculateAllPositions of part_000, after readInputsFromForm: the solver's
\* return value is dropped; only the Error that readInputsFromForm throws
\* (w.valid = FALSE) reaches the catch.  The canvas that renderFluteImage and
\* clearFluteImage draw on is not part of the state.
SolveAndShow(w) ==
    IF w.valid THEN displayResultsInForm(calculateHolePositions_Quadratic(w, "part_000"))
    ELSE clearResults(w)

\* calculateAllPositions of part_000.
calculateAllPositions_ng(w) == SolveAndShow(readInputsFromForm(w, "part_000"))

calculateAllPositions(w, src) ==
    IF src = "flutomat.js" THEN calculateAllPositions_js(w)
    ELSE calculateAllPositions_ng(w)

\* ------------------------------------------------------------------------
\* State
\* ------------------------------------------------------------------------

VARIABLES
    src,            \* the file whose calculator runs: an element of Sources
    this,           \* the FluteCalculator object's internal state variables
    form,           \* the values of the form's inputs
    border,         \* style.borderColor of each input
    out,            \* the output elements and the speed-of-sound display
    valid,          \* whether the last readInputsFromForm found every input valid
    ret,            \* return value of the solver in the last handler, or "none"
    failedHole,     \* hole whose quadratic had no real solution there, or -1
    sqrtOfNegative, \* whether that solve took the square root of a negative
    last,           \* the handler that ran last
    runs,           \* calculateAllPositions on the form as it stands: "none",
                    \* "first" (it ran once), "repeat" (it ran again)
    resetPending,   \* the reset button's setTimeout callback is queued
    edits           \* input-changing events so far

vars == <<src, this, form, border, out, valid, ret, failedHole, sqrtOfNegative,
          last, runs, resetPending, edits>>

\* Input-changing events per behaviour.
MaxEdits == 2

\* The holes whose frequency field the user edits: the first of the chain
\* and its successor.
FrequencyEditedHoles == {0, 1}

\* The hole whose diameter field the user edits.
DiameterEditedHoles == {1}

\* What the user types into a hole's frequency field (Hz): 200, 300, 3000.
HoleFrequencyEdits == {2000000, 3000000, 30000000}

\* What the user types into a hole's diameter field.
HoleDiameterEdits == {0, 1000, 9000}

EmbouchureDiameterEdits == {0, 500, 9000}

BoreDiameterEdits == {0, 3000}

WallThicknessEdits == {0}

EndFrequencyEdits == {0}

\* Temperature field: empty, below absolute zero, 30.
TemperatureEdits == {Blank, -300 * S, 30 * S}

\* The key selector's options the user picks: D4, G#4.
KeyOptions == {62, 68}

\* The calculator and its page as a handler finds them.
World ==
    [this |-> this, form |-> form, border |-> border, out |-> out,
     valid |-> valid, ret |-> "none", failedHole |-> -1, sqrtOfNegative |-> FALSE]

\* A calculator object before its constructor body ran, on a page showing
\* the inputs f.
NewWorld(f) ==
    [this |-> NewCalculator, form |-> f, border |-> NoBorder,
     out |-> DefaultOut, valid |-> TRUE, ret |-> "none",
     failedHole |-> -1, sqrtOfNegative |-> FALSE]

\* No number the calculator or the form holds in w is Over: every
\* computation behind w stayed inside the range of the numbers.
Representable(w) ==
    /\ Over \notin {w.this.temperatureCelsius, w.this.speedOfSound,
                    w.this.boreDiameter, w.this.wallThickness,
                    w.this.embouchureDiameter, w.this.endFrequency,
                    w.this.acousticEndX, w.this.embouchureAcousticX,
                    w.this.embouchurePhysicalPosition}
    /\ \A i \in DOMAIN w.this.holes :
           Over \notin {w.this.holes[i].frequency, w.this.holes[i].diameter,
                       w.this.holes[i].acousticPosition,
                       w.this.holes[i].physicalPosition}
    /\ Over \notin {w.form.temperature, w.form.boreDiameter,
                    w.form.wallThickness, w.form.embouchureDiameter,
                    w.form.endFrequency}
    /\ \A i \in Holes :
           Over \notin {w.form.holeFrequency[i], w.form.holeDiameter[i]}

\* The state is the world w.
Is(w) ==
    /\ Representable(w)
    /\ this = w.this
    /\ form = w.form
    /\ border = w.border
    /\ out = w.out
    /\ valid = w.valid
    /\ ret = w.ret
    /\ failedHole = w.failedHole
    /\ sqrtOfNegative = w.sqrtOfNegative

\* The next state is the world a handler leaves.
Becomes(w, handler, ran, pending, count) ==
    /\ Representable(w)
    /\ this' = w.this
    /\ form' = w.form
    /\ border' = w.border
    /\ out' = w.out
    /\ valid' = w.valid
    /\ ret' = w.ret
    /\ failedHole' = w.failedHole
    /\ sqrtOfNegative' = w.sqrtOfNegative
    /\ last' = handler
    /\ runs' = ran
    /\ resetPending' = pending
    /\ edits' = count
    /\ src' = src

\* The constructor's last lines: readInputsFromForm,
\* updateSpeedOfSoundDisplay, updateFrequenciesFromKey.
Setup(w, source) ==
    updateFrequenciesFromKey(updateSpeedOfSoundDisplay(readInputsFromForm(w, source)))

\* The constructor on the page as loaded; part_000 ends it with
\* calculateAllPositions.
constructor(source) ==
    IF source = "part_000"
    THEN calculateAllPositions_ng(Setup(NewWorld(DefaultForm), source))
    ELSE Setup(NewWorld(DefaultForm), source)

\* DOMContentLoaded: new FluteCalculator().
Init ==
    /\ src \in Sources
    /\ \E w \in {constructor(src)} : Is(w)
    /\ last = "constructor"
    /\ runs = IF src = "part_000" THEN "first" ELSE "none"
    /\ resetPending = FALSE
    /\ edits = 0

\* ------------------------------------------------------------------------
\* Event handlers
\* ------------------------------------------------------------------------

\* The browser refuses to submit a form with an empty required input.
RequiredFilled(f) ==
    /\ f.boreDiameter # Blank
    /\ f.wallThickness # Blank
    /\ f.embouchureDiameter # Blank
    /\ f.endFrequency # Blank
    /\ \A i \in Holes : f.holeFrequency[i] # Blank /\ f.holeDiameter[i] # Blank

\* The form's submit listener.
Submit ==
    /\ RequiredFilled(form)
    /\ \E w \in {calculateAllPositions(World, src)} :
           Becomes(w, "submit", IF runs = "none" THEN "first" ELSE "repeat",
                   resetPending, edits)

_handleTemperatureChange(w, source) ==
    updateSpeedOfSoundDisplay(readTemperatureInput(w, source))

_handleUnitChange(w) ==
    clearResults(updateUnitsBasedInputs(updateSpeedOfSoundDisplay(readUnitsInput(w))))

\* part_000's change listener of a hole frequency input.
holeFrequencyChange(w, index) ==
    calculateAllPositions_ng(
        [w EXCEPT !.form.holeFrequency[index] =
             IF Number(@) >= 26370000 THEN 26370000
             ELSE IF Number(@) <= 654100 THEN 654100 ELSE @])

\* part_000's change listener of a hole diameter input.
holeDiameterChange(w, index) ==
    calculateAllPositions_ng(
        [w EXCEPT !.form.holeDiameter[index] =
             IF Number(@) >= Number(w.form.boreDiameter)
             THEN FieldText(Sub(Number(w.form.boreDiameter), w.this.wallThickness))
             ELSE @])

\* part_000's change listener of the embouchure diameter input.
embouchureDiameterChange(w) ==
    calculateAllPositions_ng(
        [w EXCEPT !.form.embouchureDiameter =
             IF Number(@) >= Number(w.form.boreDiameter)
             THEN FieldText(Sub(Number(w.form.boreDiameter), w.this.wallThickness))
             ELSE @])

\* part_000's change listener of the bore diameter input.
boreDiameterChange(w) ==
    calculateAllPositions_ng(
        [w EXCEPT
            !.this.boreDiameter = Number(w.form.boreDiameter),
            !.form.embouchureDiameter =
                IF Number(@) >= Number(w.form.boreDiameter)
                THEN FieldText(Sub(Number(w.form.boreDiameter), w.this.wallThickness))
                ELSE @,
            !.form.holeDiameter = Array([i \in Holes |->
                IF Number(@[i]) >= Number(w.form.boreDiameter)
                THEN FieldText(Sub(Number(w.form.boreDiameter), w.this.wallThickness))
                ELSE FieldText(Number(@[i]))])])

\* resetCallback with the fault of letting the Error that part_000's
\* readInputsFromForm throws end the callback.
resetCallback_Uncaught(w, source) ==
    IF source = "part_000" /\ ~readInputsFromForm(w, source).valid
    THEN readInputsFromForm(w, source)
    ELSE clearResults(Setup(w, source))

\* The reset button's deferred callback; part_000 catches the Error of
\* readInputsFromForm and goes on.
resetCallback(w, source) == clearResults(Setup(w, source))

\* The browser's form reset: every input back to its value attribute, every
\* output back to its default value.  Styles are kept.
formReset(w) ==
    [w EXCEPT !.form = DefaultForm,
              !.out.resultEmbouchure = DefaultOut.resultEmbouchure,
              !.out.resultEnd = DefaultOut.resultEnd,
              !.out.resultHole = DefaultOut.resultHole]

\* ------------------------------------------------------------------------
\* Events
\* ------------------------------------------------------------------------

CanEdit == edits < MaxEdits

\* What runs becomes when an input with a change listener in part_000 only
\* has changed: the listener ends with calculateAllPositions.
Listened == IF src = "part_000" THEN "first" ELSE "none"

EditHoleFrequency ==
    \E i \in FrequencyEditedHoles, v \in HoleFrequencyEdits :
        /\ CanEdit
        /\ form.holeFrequency[i] # v
        /\ \E typed \in {[World EXCEPT !.form.holeFrequency[i] = v]} :
           \E w \in {IF src = "part_000" THEN holeFrequencyChange(typed, i)
                      ELSE typed} :
               Becomes(w, "holeFrequency", Listened, resetPending, edits + 1)

EditHoleDiameter ==
    \E i \in DiameterEditedHoles, v \in HoleDiameterEdits :
        /\ CanEdit
        /\ form.holeDiameter[i] # v
        /\ \E typed \in {[World EXCEPT !.form.holeDiameter[i] = v]} :
           \E w \in {IF src = "part_000" THEN holeDiameterChange(typed, i)
                      ELSE typed} :
               Becomes(w, "holeDiameter", Listened, resetPending, edits + 1)

EditEmbouchureDiameter ==
    \E v \in EmbouchureDiameterEdits :
        /\ CanEdit
        /\ form.embouchureDiameter # v
        /\ \E typed \in {[World EXCEPT !.form.embouchureDiameter = v]} :
           \E w \in {IF src = "part_000" THEN embouchureDiameterChange(typed)
                      ELSE typed} :
               Becomes(w, "embouchureDiameter", Listened, resetPending, edits + 1)

EditBoreDiameter ==
    \E v \in BoreDiameterEdits :
        /\ CanEdit
        /\ form.boreDiameter # v
        /\ \E typed \in {[World EXCEPT !.form.boreDiameter = v]} :
           \E w \in {IF src = "part_000" THEN boreDiameterChange(typed)
                      ELSE typed} :
               Becomes(w, "boreDiameter", Listened, resetPending, edits + 1)

\* No listener is bound to the wall thickness or end frequency inputs.
EditWallThickness ==
    \E v \in WallThicknessEdits :
        /\ CanEdit
        /\ form.wallThickness # v
        /\ \E w \in {[World EXCEPT !.form.wallThickness = v]} :
               Becomes(w, "wallThickness", "none", resetPending, edits + 1)

EditEndFrequency ==
    \E v \in EndFrequencyEdits :
        /\ CanEdit
        /\ form.endFrequency # v
        /\ \E w \in {[World EXCEPT !.form.endFrequency = v]} :
               Becomes(w, "endFrequency", "none", resetPending, edits + 1)

EditTemperature ==
    \E v \in TemperatureEdits :
        /\ CanEdit
        /\ form.temperature # v
        /\ \E w \in {_handleTemperatureChange(
                          [World EXCEPT !.form.temperature = v], src)} :
               Becomes(w, "temperature", "none", resetPending, edits + 1)

ChangeTempUnit ==
    /\ CanEdit
    /\ \E w \in {_handleTemperatureChange(
                      [World EXCEPT !.form.tempUnit = IF @ = "C" THEN "F" ELSE "C"],
                      src)} :
           Becomes(w, "tempUnit", "none", resetPending, edits + 1)

ChangeUnits ==
    /\ CanEdit
    /\ \E w \in {_handleUnitChange(
                      [World EXCEPT !.form.units =
                                        IF @ = "cm" THEN "inches" ELSE "cm"])} :
           Becomes(w, "units", "none", resetPending, edits + 1)

ChangeKey ==
    \E k \in KeyOptions :
        /\ CanEdit
        /\ form.keySelector # k
        /\ \E w \in {updateFrequenciesFromKey([World EXCEPT !.form.keySelector = k])} :
               Becomes(w, "key", "none", resetPending, edits + 1)

\* A click on the reset button: its listener queues the callback, then the
\* browser resets the form.
ResetClick ==
    /\ CanEdit
    /\ \E w \in {formReset(World)} :
           Becomes(w, "resetClick", "none", TRUE, edits + 1)

\* The queued callback runs.
ResetTimeout ==
    /\ resetPending
    /\ \E w \in {resetCallback(World, src)} :
           Becomes(w, "resetTimeout", "none", FALSE, edits)

Next ==
    \/ Submit
    \/ EditHoleFrequency
    \/ EditHoleDiameter
    \/ EditEmbouchureDiameter
    \/ EditBoreDiameter
    \/ EditWallThickness
    \/ EditEndFrequency
    \/ EditTemperature
    \/ ChangeTempUnit
    \/ ChangeUnits
    \/ ChangeKey
    \/ ResetClick
    \/ ResetTimeout

Spec == Init /\ [][Next]_vars

\* The step ResetTimeout, told by what it alone leaves behind: it is enabled
\* whenever the callback is queued.
QueuedCallbackRuns == resetPending /\ last' = "resetTimeout" /\ resetPending' = FALSE

\* The event loop runs every callback that setTimeout has queued.
FairSpec == Spec /\ WF_<<last, resetPending>>(QueuedCallbackRuns)

\* ------------------------------------------------------------------------
\* The solver as a function of the calculator's fields
\*
\* SolverSpec calls calculateHolePositions_Quadratic on a calculator whose
\* fields were assigned directly: NaN is what parseAndValidate stores for an
\* invalid input and 0 what the constructor starts a field with; a negative
\* number is stored by no caller in the program.
\* ------------------------------------------------------------------------

\* Field assignments per behaviour.
MaxAssignments == 2

EndFrequencyValues == {NaN, 0, -S}

SpeedOfSoundValues == {NaN, 0}

WallThicknessValues == {NaN, 0, -1000}

\* 0.2 with the wall thickness -0.1 makes boreDiameter + 2 * wallThickness 0.
BoreDiameterValues == {0, 2000}

EmbouchureDiameterValues == {0}

HoleDiameterValues == {NaN, 0, -2500}

HoleFrequencyValues == {0}

\* The holes whose fields are assigned: the first of the chain and its
\* successor.
AssignedHoles == {0, 1}

CanAssign == edits < MaxAssignments

\* The next state is the calculator w.this, nothing else changed.
Assigned(w) == Becomes(w, "assign", "none", FALSE, edits + 1)

AssignEndFrequency ==
    \E v \in EndFrequencyValues :
        /\ CanAssign
        /\ this.endFrequency # v
        /\ \E w \in {[World EXCEPT !.this.endFrequency = v]} : Assigned(w)

AssignSpeedOfSound ==
    \E v \in SpeedOfSoundValues :
        /\ CanAssign
        /\ this.speedOfSound # v
        /\ \E w \in {[World EXCEPT !.this.speedOfSound = v]} : Assigned(w)

AssignWallThickness ==
    \E v \in WallThicknessValues :
        /\ CanAssign
        /\ this.wallThickness # v
        /\ \E w \in {[World EXCEPT !.this.wallThickness = v]} : Assigned(w)

AssignBoreDiameter ==
    \E v \in BoreDiameterValues :
        /\ CanAssign
        /\ this.boreDiameter # v
        /\ \E w \in {[World EXCEPT !.this.boreDiameter = v]} : Assigned(w)

AssignEmbouchureDiameter ==
    \E v \in EmbouchureDiameterValues :
        /\ CanAssign
        /\ this.embouchureDiameter # v
        /\ \E w \in {[World EXCEPT !.this.embouchureDiameter = v]} : Assigned(w)

AssignHoleDiameter ==
    \E i \in AssignedHoles, v \in HoleDiameterValues :
        /\ CanAssign
        /\ this.holes[i].diameter # v
        /\ \E w \in {[World EXCEPT !.this.holes[i].diameter = v]} : Assigned(w)

AssignHoleFrequency ==
    \E i \in AssignedHoles, v \in HoleFrequencyValues :
        /\ CanAssign
        /\ this.holes[i].frequency # v
        /\ \E w \in {[World EXCEPT !.this.holes[i].frequency = v]} : Assigned(w)

\* A call of calculateHolePositions_Quadratic on the calculator as it is.
Solve ==
    \E w \in {calculateHolePositions_Quadratic(World, src)} :
        Becomes(w, "solve", "none", FALSE, edits)

SolverInit == Init

SolverNext ==
    \/ AssignEndFrequency
    \/ AssignSpeedOfSound
    \/ AssignWallThickness
    \/ AssignBoreDiameter
    \/ AssignEmbouchureDiameter
    \/ AssignHoleDiameter
    \/ AssignHoleFrequency
    \/ Solve

SolverSpec == SolverInit /\ [][SolverNext]_vars

\* ------------------------------------------------------------------------
\* The key selector over all of its options
\*
\* KeySpec changes the key selector to any option of index.html, or to no
\* option at all (selectedIndex -1, the value the empty string), between
\* edits of the frequency fields.
\* ------------------------------------------------------------------------

\* The values of the key selector's options, C3 to G#4.
KeySelectorOptions == 48 .. 68

\* The key selector's change listener, after any option or none was selected.
SelectKey ==
    \E k \in KeySelectorOptions \cup {Blank} :
        /\ CanEdit
        /\ form.keySelector # k
        /\ \E w \in {updateFrequenciesFromKey([World EXCEPT !.form.keySelector = k])} :
               Becomes(w, "key", "none", resetPending, edits + 1)

KeyInit == Init

KeyNext ==
    \/ SelectKey
    \/ EditHoleFrequency
    \/ EditEndFrequency

KeySpec == KeyInit /\ [][KeyNext]_vars

\* ------------------------------------------------------------------------
\* Properties
\* ------------------------------------------------------------------------

\* The hole outputs and the embouchure output.
Results(o) == <<o.resultEmbouchure, o.resultHole>>

\* What a solve leaves in the calculator t.
SolverState(t) ==
    <<t.acousticEndX, t.embouchureAcousticX, t.embouchurePhysicalPosition,
      [i \in Holes |-> <<t.holes[i].acousticPosition, t.holes[i].physicalPosition>>]>>

\* C1: whenever calculateHolePositions_Quadratic returned false in
\* calculateAllPositions, no result output holds a position or the text
\* "Error": the six hole outputs and the embouchure output are empty.
C1_FailedSolveShowsNothing ==
    ret = "false" =>
        /\ out.resultEmbouchure = Blank
        /\ \A i \in Holes : out.resultHole[i] = Blank

\* C2: for inputs that pass validation and a solve that returned true, the
\* holes' physical positions strictly increase with the hole index.
C2_HolePositionsIncrease ==
    (valid /\ ret = "true") =>
        \A n \in 1 .. (HOLE_COUNT - 1) :
            this.holes[n - 1].physicalPosition < this.holes[n].physicalPosition

\* C3: for inputs that pass validation and a solve that returned true, the
\* embouchure's physical position is strictly greater than every hole's.
C3_EmbouchureFarthest ==
    (valid /\ ret = "true") =>
        \A i \in Holes :
            this.holes[i].physicalPosition < this.embouchurePhysicalPosition

\* C4: whenever the solve returned true, every hole's physical position is
\* at least 0.
C4_HolesOnTheTube ==
    ret = "true" => \A i \in Holes : this.holes[i].physicalPosition >= 0

\* C5: if the discriminant of hole k's quadratic is negative (or a is 0 at
\* hole 0), the solve returns false, hands no negative number to Math.sqrt
\* and leaves the acousticPosition of hole k and of every later hole NaN.
C5_NegativeDiscriminantFails ==
    \A k \in Holes :
        failedHole = k =>
            /\ ret = "false"
            /\ ~sqrtOfNegative
            /\ \A i \in k .. (HOLE_COUNT - 1) : isNaN(this.holes[i].acousticPosition)

\* A solve whose chain broke at hole 1, after hole 0 was solved.
C5_Witness ==
    /\ failedHole = 1
    /\ ret = "false"
    /\ ~isNaN(this.holes[0].acousticPosition)
    /\ isNaN(this.holes[1].acousticPosition)

\* C6: when hole n's quadratic is the first with a negative discriminant,
\* the red border part_000 sets marks the diameter input of hole n and of
\* no other hole.
C6_FailureTagsItsOwnHole ==
    \A n \in Holes :
        (src = "part_000" /\ failedHole = n) =>
            \A i \in Holes : (border.holeDiameter[i] = "red") <=> (i = n)

\* C7: after a solve (always preceded by readInputsFromForm), either it
\* returned true and all six holes have a physicalPosition that is a number,
\* or it returned false and all six have physicalPosition NaN.
C7_AllOrNothing ==
    ret # "none" =>
        \/ ret = "true" /\ \A i \in Holes : ~isNaN(this.holes[i].physicalPosition)
        \/ ret = "false" /\ \A i \in Holes : isNaN(this.holes[i].physicalPosition)

\* A failed solve that had already solved hole 0 and projected no hole.
C7_Witness ==
    /\ ret = "false"
    /\ failedHole > 0
    /\ ~isNaN(this.holes[0].acousticPosition)
    /\ \A i \in Holes : isNaN(this.holes[i].physicalPosition)

\* C8: a run of calculateAllPositions that follows another with the form
\* unchanged in between leaves the result outputs and the solver state
\* (acousticEndX, embouchureAcousticX, embouchurePhysicalPosition, every
\* hole's acousticPosition and physicalPosition) as the first run left them.
C8_Idempotent ==
    [][runs' = "repeat" =>
          /\ Results(out') = Results(out)
          /\ out'.resultEnd = out.resultEnd
          /\ SolverState(this') = SolverState(this)]_vars

\* A second run in a row on inputs whose solve fails part-way.
C8_Witness ==
    /\ runs = "repeat"
    /\ last = "submit"
    /\ ret = "false"
    /\ failedHole >= 0

\* C9: the hole and embouchure outputs shown after a run of
\* calculateAllPositions depend on the form inputs alone: they are the
\* outputs of a calculator that has handled nothing since its construction
\* and runs calculateAllPositions on the same inputs.
C9_ShownFromFormAlone ==
    runs # "none" =>
        \A fresh \in {constructor(src)} :
            \A rerun \in {calculateAllPositions([fresh EXCEPT !.form = form], src)} :
                Results(out) = Results(rerun.out)

\* C10: in every reachable state the end-of-flute output reads "0.000".
C10_EndOutputReadsZero == out.resultEnd = 0

\* The reset callback has run after an earlier calculation showed results.
C10_Witness ==
    /\ last = "resetTimeout"
    /\ out.resultEnd = 0
    /\ out.resultEmbouchure = Blank
    /\ ~isNaN(this.embouchurePhysicalPosition)
    /\ this.embouchurePhysicalPosition # 0

\* The fields of the form f other than the wall thickness are valid: a
\* temperature above absolute zero, a bore > 0, every diameter > 0 and below
\* the bore, every frequency > 0.
OtherFieldsValid(f) ==
    /\ f.temperature # Blank
    /\ ToCelsius(f.temperature, f.tempUnit) > -2731500
    /\ f.boreDiameter > 0
    /\ f.embouchureDiameter > 0 /\ f.embouchureDiameter < f.boreDiameter
    /\ f.endFrequency > 0
    /\ \A i \in Holes :
           /\ f.holeFrequency[i] > 0
           /\ f.holeDiameter[i] > 0 /\ f.holeDiameter[i] < f.boreDiameter

\* C11: a run of calculateAllPositions on a form whose wall thickness is 0
\* and whose other fields are valid does not fail: the input is accepted,
\* the solve returns true, and the six hole outputs and the embouchure output
\* hold positions.
C11_ZeroWallThicknessSolves ==
    (runs # "none" /\ form.wallThickness = 0 /\ OtherFieldsValid(form)) =>
        /\ valid
        /\ ret = "true"
        /\ out.resultEmbouchure \notin {Blank, ErrorText}
        /\ \A i \in Holes : out.resultHole[i] \notin {Blank, ErrorText}

\* C13: whenever calculateAllPositions let the solver run, every hole's
\* diameter is above 0 and below the bore diameter.
C13_HoleDiameterInDomain ==
    ret # "none" =>
        \A i \in Holes :
            /\ Lt(0, this.holes[i].diameter)
            /\ Lt(this.holes[i].diameter, this.boreDiameter)

\* C14: whenever calculateAllPositions let the solver run, boreDiameter,
\* wallThickness, embouchureDiameter, endFrequency, speedOfSound and every
\* hole's frequency and diameter are numbers above 0.
C14_CoreGetsPositiveNumbers ==
    ret # "none" =>
        /\ \A x \in {this.boreDiameter, this.wallThickness, this.embouchureDiameter,
                     this.endFrequency, this.speedOfSound} : Lt(0, x)
        /\ \A i \in Holes : /\ Lt(0, this.holes[i].frequency)
                            /\ Lt(0, this.holes[i].diameter)

\* C16: for the defaults of index.html (bore 0.824, wall 0.113, embouchure
\* 0.500, end 293.66 Hz, the six default hole frequencies and diameters,
\* inches, 20 degrees C) the solve returns true with six positive, strictly
\* increasing hole positions and an embouchure position greater than all.
C16_DefaultsSolve ==
    (runs # "none" /\ form = DefaultForm) =>
        /\ ret = "true"
        /\ \A i \in Holes :
               /\ Lt(0, this.holes[i].physicalPosition)
               /\ Lt(this.holes[i].physicalPosition, this.embouchurePhysicalPosition)
        /\ \A n \in 1 .. (HOLE_COUNT - 1) :
               Lt(this.holes[n - 1].physicalPosition, this.holes[n].physicalPosition)

\* The Calculate button was pressed on the page as loaded.
C16_Witness ==
    /\ src = "flutomat.js"
    /\ last = "submit"
    /\ form = DefaultForm
    /\ ret = "true"
    /\ out.resultHole[0] = toFixed(this.holes[0].physicalPosition, 3)

\* The temperature read last lies below absolute zero.
BelowAbsoluteZero(t) ==
    /\ t.temperatureCelsius \notin {NaN, Over}
    /\ t.temperatureCelsius < -2731500

\* C17: after a calculation at a temperature below -273.15 degrees C,
\* speedOfSound is NaN, the solve has returned false at its first check, no
\* hole has a position, and no hole output and no embouchure output shows a
\* position.
C17_NothingShownBelowAbsoluteZero ==
    (BelowAbsoluteZero(this) /\ ret # "none") =>
        /\ isNaN(this.speedOfSound)
        /\ ret = "false"
        /\ failedHole = -1
        /\ \A i \in Holes : /\ isNaN(this.holes[i].acousticPosition)
                            /\ isNaN(this.holes[i].physicalPosition)
                            /\ out.resultHole[i] \in {Blank, ErrorText}
        /\ out.resultEmbouchure \in {Blank, ErrorText}

\* What does hold of a solve while speedOfSound is NaN, in both files: it
\* returns false at its first check, no hole gets a position, acousticEndX
\* and the embouchure positions stay as they were, the hole outputs show no
\* position, and the embouchure output is empty or shows the position the
\* calculator held before.
FailsAtFirstCheckWithoutSpeedOfSound ==
    /\ [](BelowAbsoluteZero(this) => isNaN(this.speedOfSound))
    /\ [][(isNaN(this'.speedOfSound) /\ ret' # "none") =>
              /\ ret' = "false"
              /\ failedHole' = -1
              /\ \A i \in Holes : /\ isNaN(this'.holes[i].acousticPosition)
                                  /\ isNaN(this'.holes[i].physicalPosition)
                                  /\ out'.resultHole[i] \in {Blank, ErrorText}
              /\ this'.acousticEndX = this.acousticEndX
              /\ this'.embouchureAcousticX = this.embouchureAcousticX
              /\ this'.embouchurePhysicalPosition = this.embouchurePhysicalPosition
              /\ out'.resultEmbouchure \in
                     {Blank, format(this.embouchurePhysicalPosition)}]_vars

\* A calculation at -300 degrees C after an earlier successful one.
C17_Witness ==
    /\ src = "part_000"
    /\ BelowAbsoluteZero(this)
    /\ isNaN(this.speedOfSound)
    /\ ret = "false"
    /\ \A i \in Holes : out.resultHole[i] = ErrorText
    /\ ~isNaN(this.embouchurePhysicalPosition)

\* C18: after a solve, the holes that were assigned an acousticPosition are
\* holes 0 .. k for some k: hole n >= 1 has one only if hole n - 1 has a
\* non-NaN one, and it is the value step 3 computes from that position of
\* hole n - 1 (every position was reset to NaN by readInputsFromForm before
\* the solve, so none is left from an earlier solve).
C18_ChainInIndexOrder ==
    ret # "none" =>
        \A n \in 1 .. (HOLE_COUNT - 1) :
            ~isNaN(this.holes[n].acousticPosition) =>
                /\ ~isNaN(this.holes[n - 1].acousticPosition)
                /\ \A again \in
                       {SolveHole([World EXCEPT !.this.holes[n].acousticPosition = NaN],
                                  src,
                                  Array([i \in Holes |->
                                      calculateClosedHoleCorrection(this, i)]),
                                  n)} :
                       again.this.holes[n].acousticPosition =
                           this.holes[n].acousticPosition

\* A solve that assigned holes 0 and 1 and broke at hole 2.
C18_Witness ==
    /\ ret = "false"
    /\ ~isNaN(this.holes[1].acousticPosition)
    /\ \A i \in 2 .. (HOLE_COUNT - 1) : isNaN(this.holes[i].acousticPosition)

\* C19: in every reachable state this.speedOfSound is the speed for the
\* temperature held, in the unit system this.units: calculating it again
\* from this.temperatureCelsius and this.units gives the value held.
C19_SpeedOfSoundInCurrentUnits ==
    \A again \in {calculateSpeedOfSound(World)} :
        this.speedOfSound = again.this.speedOfSound

\* The end frequency or the speed of sound of the calculator t is NaN or
\* not above 0.
InvalidFrequencyOrSpeed(t) ==
    \/ isNaN(t.endFrequency) \/ t.endFrequency <= 0
    \/ isNaN(t.speedOfSound) \/ t.speedOfSound <= 0

\* C15: a call of calculateHolePositions_Quadratic with endFrequency (or
\* speedOfSound) NaN or <= 0 returns false and leaves acousticEndX,
\* embouchureAcousticX, embouchurePhysicalPosition and every hole's
\* acousticPosition and physicalPosition as they were before the call.
C15_InvalidInputLeavesState ==
    [][(last' = "solve" /\ InvalidFrequencyOrSpeed(this)) =>
           /\ ret' = "false"
           /\ SolverState(this') = SolverState(this)]_vars

\* A call with a negative end frequency, on a calculator that holds the
\* positions of an earlier solve.
C15_Witness ==
    /\ last = "solve"
    /\ this.endFrequency = -S
    /\ Lt(0, this.speedOfSound)
    /\ ret = "false"
    /\ Lt(0, this.acousticEndX)
    /\ \A i \in Holes : Lt(0, this.holes[i].physicalPosition)

\* A wall thickness or a diameter that calculateEffectiveHoleHeight is to
\* reject: NaN, infinite or negative.
OutOfDomain(x) == isNaN(x) \/ x = Over \/ x < 0

ZeroDivisor(t) ==
    \/ 0 \in {t.endFrequency, t.boreDiameter, t.embouchureDiameter,
              Add(t.boreDiameter, Mul(2 * S, t.wallThickness))}
    \/ \E i \in Holes : 0 \in {t.holes[i].frequency, t.holes[i].diameter}

\* C12, for the one divisor below 1e-9 in magnitude that a number of the
\* model can be, the exact 0: a solve with a divisor 0 returns false.  A
\* non-zero divisor below 1e-9 is no number of the model (the numbers
\* resolve 1 / S).
C12_ZeroDivisorFails ==
    (last = "solve" /\ ZeroDivisor(this)) => ret = "false"

\* The frequency fields a key sets: equal temperament from A4 = 440 Hz, two
\* decimals, for the note b and the notes 2, 4, 5, 7, 9 and 11 semitones
\* above it.
PresetFrequency(b, degree) ==
    toFixed(midiNoteToFrequency(b + <<0, 2, 4, 5, 7, 9, 11>>[degree + 1]), 2)

\* C21: after updateFrequenciesFromKey with a valid base note b, the end
\* frequency field holds freq(b) and hole i's frequency field holds
\* freq(b + interval i + 1) of the pattern [0,2,4,5,7,9,11], so the seven
\* frequencies strictly increase from the end through hole 0 to hole 5; with
\* an invalid key no field is changed.
C21_PresetMapping ==
    /\ [](\A b \in KeySelectorOptions :
             (last = "key" /\ parseInt(form.keySelector) = b) =>
                 /\ form.endFrequency = PresetFrequency(b, 0)
                 /\ \A i \in Holes : form.holeFrequency[i] = PresetFrequency(b, i + 1)
                 /\ Lt(form.endFrequency, form.holeFrequency[0])
                 /\ \A n \in 1 .. (HOLE_COUNT - 1) :
                        Lt(form.holeFrequency[n - 1], form.holeFrequency[n]))
    /\ [][(last' = "key" /\ isNaN(parseInt(form'.keySelector))) =>
              [form' EXCEPT !.keySelector = form.keySelector] = form]_vars

\* The selector lost its selection after the key C3 had set the frequency
\* fields: they still hold the scale of C3, 130.81 Hz to 246.94 Hz.
C21_Witness ==
    /\ last = "key"
    /\ isNaN(parseInt(form.keySelector))
    /\ form.endFrequency = PresetFrequency(48, 0)
    /\ form.endFrequency = 1308100
    /\ form.holeFrequency[5] = 2469400

\* C22: whenever calculateHolePositions_Quadratic returned true, every
\* hole's physicalPosition is acousticEndX - acousticPosition and
\* embouchurePhysicalPosition is acousticEndX - embouchureAcousticX, with
\* the acousticEndX this solve computed from the calculator's fields, and
\* the seven positions are numbers.
C22_ProjectionOnSuccess ==
    ret = "true" =>
        /\ this.acousticEndX =
               AcousticEnd(this,
                           Array([i \in Holes |-> calculateClosedHoleCorrection(this, i)]),
                           calculateEndCorrection(this))
        /\ this.embouchurePhysicalPosition =
               Sub(this.acousticEndX, this.embouchureAcousticX)
        /\ ~isNaN(this.embouchurePhysicalPosition)
        /\ \A i \in Holes :
               /\ this.holes[i].physicalPosition =
                      Sub(this.acousticEndX, this.holes[i].acousticPosition)
               /\ ~isNaN(this.holes[i].physicalPosition)

\* A successful solve in centimetres, after the one the page in inches
\* began with.
C22_Witness ==
    /\ src = "part_000"
    /\ ret = "true"
    /\ this.units = "cm"
    /\ Lt(0, this.holes[0].physicalPosition)
    /\ Lt(this.holes[5].physicalPosition, this.embouchurePhysicalPosition)

\* x less the closed-hole corrections of the holes with index above n, in the
\* order of the indices.
LessCorrectionsAbove(x, t, n) ==
    LET Less(y, i) == IF i > n THEN Sub(y, calculateClosedHoleCorrection(t, i)) ELSE y
    IN  Less(Less(Less(Less(Less(Less(x, 0), 1), 2), 3), 4), 5)

\* The target length of hole n: half a wavelength of its frequency, less the
\* corrections of the holes above it.
TargetLength(t, n) ==
    LessCorrectionsAbove(Div(Mul(t.speedOfSound, 5000), t.holes[n].frequency), t, n)

\* The calculator and its page with hole n not yet solved.
Unsolved(n) == [World EXCEPT !.this.holes[n].acousticPosition = NaN]

\* C23: acousticEndX subtracts the end correction and the closed-hole
\* corrections of all six holes, and the target length L_n of hole n
\* subtracts the closed-hole corrections of the holes with index above n and
\* nothing else: the position a solve gave hole n is the root of the
\* quadratic with that L_n.
C23_CorrectionRanges ==
    (ret # "none" /\ ~isNaN(this.holes[0].acousticPosition)) =>
        /\ this.acousticEndX =
               LessCorrectionsAbove(
                   Sub(Div(Mul(this.speedOfSound, 5000), this.endFrequency),
                       calculateEndCorrection(this)),
                   this, -1)
        /\ \A again \in
               {FirstQuadratic(Unsolved(0), src, calculateEffectiveHoleHeight(this, 0),
                               TargetLength(this, 0),
                               Mul(Div(this.holes[0].diameter, this.boreDiameter),
                                   Div(this.holes[0].diameter, this.boreDiameter)))} :
               again.this.holes[0].acousticPosition = this.holes[0].acousticPosition
        /\ \A n \in 1 .. (HOLE_COUNT - 1) :
               ~isNaN(this.holes[n].acousticPosition) =>
                   \A again \in
                       {ChainQuadratic(
                            Unsolved(n), src, n, this.holes[n - 1].acousticPosition,
                            TargetLength(this, n),
                            Mul(calculateEffectiveHoleHeight(this, n),
                                Mul(Div(this.boreDiameter, this.holes[n].diameter),
                                    Div(this.boreDiameter, this.holes[n].diameter))))} :
                       again.this.holes[n].acousticPosition =
                           this.holes[n].acousticPosition

\* A solve of all six holes whose closed-hole corrections are not 0, in the
\* bore narrowed to 0.3.
C23_Witness ==
    /\ ret = "true"
    /\ this.boreDiameter = 3000
    /\ \A i \in Holes : Lt(0, calculateClosedHoleCorrection(this, i))
    /\ ~isNaN(this.holes[5].acousticPosition)

\* The keys whose scales replace the frequencies of a solve: A3 and E4.
OtherKeys == {57, 64}

\* The diameters that replace hole 1's: 0.2 and 0.3.
OtherDiameters == {2000, 3000}

\* The world w with the hole frequencies of the scale of key b.
WithHoleFrequencies(w, b) ==
    [w EXCEPT !.this.holes = Array([i \in Holes |->
                  [w.this.holes[i] EXCEPT !.frequency = PresetFrequency(b, i + 1)]])]

\* The world w with the end and hole frequencies of the scale of key b and
\* hole 1 of diameter d.
WithChain(w, b, d) ==
    [WithHoleFrequencies(w, b) EXCEPT !.this.endFrequency = PresetFrequency(b, 0),
                                      !.this.holes[1].diameter = d]

\* C24: a successful solve and any other successful solve with the same
\* boreDiameter, wallThickness and embouchureDiameter have the same
\* embouchureAcousticX, whatever the hole frequencies, hole diameters and end
\* frequency of the other are; when the other differs in the hole
\* frequencies only, the two have the same embouchurePhysicalPosition.
C24_EmbouchureIndependent ==
    ret = "true" =>
        /\ \A b \in OtherKeys, d \in OtherDiameters :
               \A other \in {calculateHolePositions_Quadratic(WithChain(World, b, d), src)} :
                   other.ret = "true" =>
                       other.this.embouchureAcousticX = this.embouchureAcousticX
        /\ \A b \in OtherKeys :
               \A other \in {calculateHolePositions_Quadratic(
                                 WithHoleFrequencies(World, b), src)} :
                   other.ret = "true" =>
                       other.this.embouchurePhysicalPosition =
                           this.embouchurePhysicalPosition

\* A successful solve beside which another chain (the scale of E4, hole 1 of
\* diameter 0.3) and other hole frequencies (the scale of A3) solve as well,
\* with another acoustic end and other hole positions.
C24_Witness ==
    /\ ret = "true"
    /\ \E other \in {calculateHolePositions_Quadratic(WithChain(World, 64, 3000), src)} :
           /\ other.ret = "true"
           /\ other.this.acousticEndX # this.acousticEndX
           /\ other.this.embouchurePhysicalPosition # this.embouchurePhysicalPosition
    /\ \E other \in {calculateHolePositions_Quadratic(WithHoleFrequencies(World, 57), src)} :
           /\ other.ret = "true"
           /\ \A i \in Holes :
                  other.this.holes[i].physicalPosition # this.holes[i].physicalPosition

\* The handler that ran last has called readTemperatureInput: the
\* temperature listeners, and every caller of readInputsFromForm.
TemperatureRead ==
    \/ last \in {"constructor", "submit", "temperature", "tempUnit", "resetTimeout"}
    \/ /\ src = "part_000"
       /\ last \in {"holeFrequency", "holeDiameter", "embouchureDiameter",
                     "boreDiameter"}

\* C25: after readTemperatureInput ran on a temperature field that holds no
\* number, temperatureCelsius is the default 20 and speedOfSound is a
\* number, in both files and for both temperature units.
C25_TemperatureDefaultOnError ==
    (TemperatureRead /\ isNaN(parseFloat(form.temperature))) =>
        /\ this.temperatureCelsius = 20 * S
        /\ ~isNaN(this.speedOfSound)

\* What src/flutomat.js does keep of C25: temperatureCelsius is 20.
DefaultTemperatureKept ==
    (src = "flutomat.js" /\ TemperatureRead /\ isNaN(parseFloat(form.temperature))) =>
        this.temperatureCelsius = 20 * S

\* The outputs o show a position: some hole output or the embouchure output
\* holds a number.
ShowsPosition(o) ==
    \/ o.resultEmbouchure \notin {Blank, ErrorText}
    \/ \E i \in Holes : o.resultHole[i] \notin {Blank, ErrorText}

\* C26: after every unit-selection change the six hole outputs and the
\* embouchure output are empty; they stay empty until the next run of
\* calculateAllPositions; and a position shown by the handler that follows
\* the unit change comes from a solve that succeeded in the new unit system,
\* so that no result of the old unit system stands next to the converted
\* dimension inputs.
C26_UnitChangeInvalidatesResults ==
    /\ [][last' = "units" => Results(out') = Results(DefaultOut)]_vars
    /\ [][(Results(out) = Results(DefaultOut) /\ Results(out') # Results(out)) =>
              runs' # "none"]_vars
    /\ [][(last = "units" /\ ShowsPosition(out')) =>
              /\ runs' # "none"
              /\ ret' = "true"
              /\ this'.units = form'.units]_vars

\* What does hold after a unit change, in both files: the outputs are
\* empty, and only a run of calculateAllPositions fills them again.
EmptyUntilNextCalculation ==
    /\ [][last' = "units" => Results(out') = Results(DefaultOut)]_vars
    /\ [][(Results(out) = Results(DefaultOut) /\ Results(out') # Results(out)) =>
              runs' # "none"]_vars

\* The handler after a unit change to centimetres ran a solve that failed,
\* and the embouchure output shows the position computed in inches.
C26_Witness ==
    /\ src = "part_000"
    /\ this.units = "cm"
    /\ ret = "false"
    /\ out.resultEmbouchure = format(this.embouchurePhysicalPosition)
    /\ out.resultEmbouchure = 211380

\* Some hole output shows a position.
ShowsHolePosition(o) == \E i \in Holes : o.resultHole[i] \notin {Blank, ErrorText}

\* The frequencies the calculator t solved with are those of the form f.
SolvedFromFrequenciesOf(t, f) ==
    /\ t.endFrequency = parseFloat(f.endFrequency)
    /\ \A i \in Holes : t.holes[i].frequency = parseFloat(f.holeFrequency[i])

\* C27: in part_000, whenever the hole outputs show positions, the solve
\* that computed them read the frequencies now in the form; and every
\* handler that rewrites frequency fields (the key selector's through
\* updateFrequenciesFromKey among them) has recalculated or cleared the
\* results when it returns.
C27_NoStaleResults ==
    /\ []((src = "part_000" /\ ShowsHolePosition(out)) =>
             SolvedFromFrequenciesOf(this, form))
    /\ [][(/\ src = "part_000"
           /\ last' \in {"key", "holeFrequency", "resetClick", "resetTimeout"}
           /\ \/ form'.endFrequency # form.endFrequency
              \/ form'.holeFrequency # form.holeFrequency) =>
              \/ runs' # "none"
              \/ Results(out') = Results(DefaultOut)]_vars

\* The key selector of part_000 changed to G#4 while the outputs showed the
\* positions of the scale of D4: they still do.
C27_Witness ==
    /\ src = "part_000"
    /\ last = "key"
    /\ form.keySelector = 68
    /\ form.holeFrequency[0] = PresetFrequency(68, 1)
    /\ this.holes[0].frequency = PresetFrequency(62, 1)
    /\ out.resultHole[0] = format(this.holes[0].physicalPosition)
    /\ ShowsHolePosition(out)

\* C28: after a click on the reset button the callback queued with
\* setTimeout eventually runs, and when it has run the six hole outputs and
\* the embouchure output are empty and the end output reads "0.000",
\* whatever was handled between the click and the callback and whether or
\* not readInputsFromForm found an invalid input inside the callback.
C28_DeferredReset ==
    /\ resetPending ~> (last = "resetTimeout" /\ ~resetPending)
    /\ [](last = "resetTimeout" =>
             /\ Results(out) = Results(DefaultOut)
             /\ out.resultEnd = toFixed(0, 3))
    /\ [][last' = "resetTimeout" => resetPending /\ ~resetPending']_vars

\* The callback ran after a calculation had shown results and the wall
\* thickness had been set to 0 since the click: readInputsFromForm found the
\* input invalid inside the callback, and the outputs are empty.
C28_Witness ==
    /\ last = "resetTimeout"
    /\ ~valid
    /\ form.wallThickness = 0
    /\ ~isNaN(this.embouchurePhysicalPosition)
    /\ this.embouchurePhysicalPosition # 0
    /\ Results(out) = Results(DefaultOut)
    /\ out.resultEnd = 0

\* The queued callback can always run: ResetTimeout is enabled whenever
\* resetPending holds.
CallbackCanRun == resetPending => Representable(resetCallback(World, src))

\* The diameter field text holds a number above 0 and below the number in
\* the bore diameter field of the form f.
InsideBore(text, f) ==
    /\ Lt(0, parseFloat(text))
    /\ Lt(parseFloat(text), parseFloat(f.boreDiameter))

\* C29: in part_000, when the change handler of a hole diameter field, of
\* the embouchure diameter field or of the bore diameter field has done its
\* clamping, every hole diameter field and the embouchure diameter field
\* hold a value above 0 and below the value of the bore diameter field.
C29_DiametersClamped ==
    (src = "part_000"
       /\ last \in {"holeDiameter", "embouchureDiameter", "boreDiameter"}) =>
        /\ InsideBore(form.embouchureDiameter, form)
        /\ \A i \in Holes : InsideBore(form.holeDiameter[i], form)

\* What the hole diameter handler does keep: the field it was called for is
\* left below the bore diameter field's value, or holds that value less
\* this.wallThickness (the empty string when that is no number).
ClampedBelowBoreOrByWall ==
    [][(src = "part_000" /\ last' = "holeDiameter") =>
          \A i \in DiameterEditedHoles :
              form'.holeDiameter[i] # form.holeDiameter[i] =>
                  \/ Number(form'.holeDiameter[i]) < Number(form'.boreDiameter)
                  \/ form'.holeDiameter[i] =
                         FieldText(Sub(Number(form'.boreDiameter), this.wallThickness))]_vars

\* The world after the other unit was selected in w: _handleUnitChange on
\* the changed selection.
UnitsToggled(w) ==
    _handleUnitChange([w EXCEPT !.form.units = IF @ = "cm" THEN "inches" ELSE "cm"])

\* The field text holds a number of at most `digits` decimals.
AtMostDecimals(text, digits) == text # Blank /\ toFixed(text, digits) = text

\* The dimension fields of the form f: wall thickness, bore diameter,
\* embouchure diameter and the six hole diameters.
DimensionFields(f) ==
    <<f.wallThickness, f.boreDiameter, f.embouchureDiameter>>
        \o [n \in 1 .. HOLE_COUNT |-> f.holeDiameter[n - 1]]

\* Selecting the other unit and then the first one again returns every
\* dimension field of at most `digits` decimals to its value.
RoundTrips(digits) ==
    \A back \in {UnitsToggled(UnitsToggled(World))} :
        \A n \in 1 .. (HOLE_COUNT + 3) :
            AtMostDecimals(DimensionFields(form)[n], digits) =>
                DimensionFields(back.form)[n] = DimensionFields(form)[n]

\* C30: switching the unit selection from inches to cm and back (or from cm
\* to inches and back) returns the wall thickness, bore diameter, embouchure
\* diameter and hole diameter fields to the values they had, when those had
\* at most 3 decimals (inches) or 2 decimals (cm).
C30_UnitRoundTrip == RoundTrips(IF form.units = "cm" THEN 2 ELSE 3)

\* What does hold: the round trip from cm to inches and back.
CmRoundTrip == form.units = "cm" => RoundTrips(2)

\* The unit selection of the page as loaded went to cm and back to inches:
\* the bore diameter field reads 0.823 and the wall thickness field 0.114.
C30_Witness ==
    /\ last = "units"
    /\ form.units = "inches"
    /\ form.boreDiameter = 8230
    /\ form.wallThickness = 1140
    /\ form.embouchureDiameter = 5000

=============================================================================
